---- MODULE Spec2Model ----
(***************************************************************************)
(* Model of src/app.py: the Streamlit script "Analyseur de Houle".         *)
(*                                                                         *)
(* Text is modelled at word granularity: a cell (the text between two      *)
(* tabs) is a sequence of words, a line is a non-empty sequence of cells,  *)
(* a file is a sequence of lines.  Python's substring test  p in s  is the *)
(* contiguous-subsequence test Contains(s, p).                             *)
(***************************************************************************)
EXTENDS Integers, Sequences, FiniteSets, TLC

VARIABLES
    uploaded_file,      \* st.file_uploader's value: <<>> (None) or <<file>>
    cache,              \* st.cache_data's store of load_data: file -> outcome
    pc,                 \* position of the script run
    lines,              \* load_data: the decoded lines
    header_row_index,   \* load_data: local of the header search
    found_header,       \* load_data: local of the header search
    table,              \* load_data: the local df
    ret,                \* load_data: the value being returned
    df_raw,             \* sidebar: load_data's result
    df,                 \* the module-level df
    rendered            \* what the main dashboard block did in this run

vars == <<uploaded_file, cache, pc, lines, header_row_index, found_header,
          table, ret, df_raw, df, rendered>>

----------------------------------------------------------------------------
(* Bounds of the input families.                                           *)

MaxPreamble == 2        \* lines before the header line
MaxRows == 2            \* data rows of the row family
MaxTime == 2            \* date-time texts in use: DateTexts[1 .. MaxTime + 1]

----------------------------------------------------------------------------
(* Text.                                                                   *)

BadByte == "<0xFF>"             \* a byte that is no valid UTF-8
Replacement == "<U+FFFD>"       \* what errors='replace' puts in its place
Space == " "

\* p in s
Contains(s, p) ==
    \E i \in 1..(Len(s) - Len(p) + 1) : SubSeq(s, i, i + Len(p) - 1) = p

\* the line as one string contains p (p holds no tab)
LineContains(line, p) == \E i \in 1..Len(line) : Contains(line[i], p)

RECURSIVE LStrip(_)
LStrip(s) == IF s # <<>> /\ Head(s) = Space THEN LStrip(Tail(s)) ELSE s

RECURSIVE RStrip(_)
RStrip(s) ==
    IF s # <<>> /\ s[Len(s)] = Space THEN RStrip(SubSeq(s, 1, Len(s) - 1)) ELSE s

\* str.strip()
Strip(s) == RStrip(LStrip(s))

\* The date-time texts a buoy export writes, in time order.  The value of
\* the i-th text is i - 1, in half days: its day is (i - 1) \div 2.
DateTexts == << "2024-01-01 00:00", "2024-01-01 12:00", "2024-01-02 00:00",
                "2024-01-02 12:00", "2024-01-03 00:00", "2024-01-03 12:00" >>

\* The numeric texts, with their values.
NumTexts == << "15" >>
NumValue(w) == IF w = "15" THEN 15 ELSE 0

IsDateText(c) == Len(c) = 1 /\ \E i \in 1..Len(DateTexts) : DateTexts[i] = c[1]
DateValue(c) == (CHOOSE i \in 1..Len(DateTexts) : DateTexts[i] = c[1]) - 1
IsNumText(c) == Len(c) = 1 /\ \E i \in 1..Len(NumTexts) : NumTexts[i] = c[1]

----------------------------------------------------------------------------
(* Values of a DataFrame cell.                                             *)

NaN == [t |-> "nan"]
NaT == [t |-> "nat"]
Str(c) == [t |-> "str", s |-> c]
Num(n) == [t |-> "num", n |-> n]
Ts(v) == [t |-> "ts", v |-> v]

None == [isNone |-> TRUE]
DataFrame(cols, rows) == [isNone |-> FALSE, columns |-> cols, rows |-> rows]
IsNone(x) == x.isNone
Empty(d) == d.rows = <<>>

NoFile == <<>>
Some(f) == <<f>>

----------------------------------------------------------------------------
(* load_data, stage by stage.                                              *)

\* bytes.decode("utf-8", errors='replace') of one word: never raises
DecodeWord(w) == IF w = BadByte THEN Replacement ELSE w

\* a faulty variant: errors='ignore', which drops an invalid byte
DecodeCellIgnore(c) == SelectSeq(c, LAMBDA w : w # BadByte)

DecodeCell(c) == [i \in 1..Len(c) |-> DecodeWord(c[i])]

DecodeLine(l) == [i \in 1..Len(l) |-> DecodeCell(l[i])]

\* content = getvalue().decode(...); lines = io.StringIO(content).readlines()
Decode(file) == [i \in 1..Len(file) |-> DecodeLine(file[i])]

\* a faulty variant: the search looks for "Date and time" only
IsHeaderLineDateOnly(line) == LineContains(line, <<"Date", "and", "time">>)

\* the test of the header search
IsHeaderLine(line) ==
    LineContains(line, <<"Date", "and", "time">>) \/ LineContains(line, <<"Hm0">>)

\* the lines enumerate(lines) visits, in order
ScannedLines(ls) == 1..Len(ls)

\* the 1-based position of the line the loop breaks at, 0 when it never breaks
FirstHeader(ls) ==
    IF \E i \in ScannedLines(ls) : IsHeaderLine(ls[i])
    THEN CHOOSE i \in ScannedLines(ls) :
            /\ IsHeaderLine(ls[i])
            /\ \A j \in ScannedLines(ls) : j < i => ~IsHeaderLine(ls[j])
    ELSE 0

\* pandas skips a line holding one cell of white space only (skip_blank_lines)
IsBlankLine(line) == Len(line) = 1 /\ Strip(line[1]) = <<>>

NonBlank(ls) == SelectSeq(ls, LAMBDA l : ~IsBlankLine(l))

\* header=n names the n-th line pandas reads, and pandas does not read blank lines
HeaderLineOf(ls, n) == NonBlank(ls)[n + 1]

BodyLinesOf(ls, n) == SubSeq(NonBlank(ls), n + 2, Len(NonBlank(ls)))

\* pandas renames a repeated header cell X to X.1, X.2, ... and an empty one
Suffixes == << ".1", ".2", ".3", ".4", ".5", ".6" >>
Unnamed == << "Unnamed: 0", "Unnamed: 1", "Unnamed: 2", "Unnamed: 3", "Unnamed: 4" >>
MangledName(hdr, i) ==
    LET name == IF hdr[i] = <<>> THEN << Unnamed[i] >> ELSE hdr[i]
        k == Cardinality({j \in 1..(i - 1) : hdr[j] = hdr[i]})
    IN  IF k = 0 \/ hdr[i] = <<>> THEN name ELSE Append(name, Suffixes[k])

\* read_csv raises: no such header line, or a row with more cells than the header
ReadCsvRaises(ls, n) ==
    \/ n + 1 > Len(NonBlank(ls))
    \/ \E r \in 1..Len(BodyLinesOf(ls, n)) :
          Len(BodyLinesOf(ls, n)[r]) > Len(HeaderLineOf(ls, n))

\* a short row is padded on the right with empty cells
RawCell(row, j) == IF j <= Len(row) THEN row[j] ELSE <<>>

\* type inference: a column whose non-empty cells are all numbers is numeric,
\* any other column keeps its texts; an empty cell is NaN in both
NumericColumn(body, j) ==
    \A r \in 1..Len(body) : RawCell(body[r], j) = <<>> \/ IsNumText(RawCell(body[r], j))

ReadCell(body, r, j) ==
    LET c == RawCell(body[r], j)
    IN  IF c = <<>> THEN NaN
        ELSE IF NumericColumn(body, j) THEN Num(NumValue(c[1]))
        ELSE Str(c)

\* pd.read_csv(buffer, sep='\t', header=header_row_index, engine='python')
ReadCsv(ls, n) ==
    LET hdr == HeaderLineOf(ls, n)
        body == BodyLinesOf(ls, n)
    IN  DataFrame([j \in 1..Len(hdr) |-> MangledName(hdr, j)],
                  [r \in 1..Len(body) |-> [j \in 1..Len(hdr) |-> ReadCell(body, r, j)]])

\* df.columns = [str(c).strip() for c in df.columns]
StripColumns(d) ==
    DataFrame([j \in 1..Len(d.columns) |-> Strip(d.columns[j])], d.rows)

\* the if / elif chain that fills renaming_map: the new name of column col
RenameOf(col) ==
    IF Contains(col, <<"Date">>) THEN <<"Date">>
    ELSE IF Contains(col, <<"Hm0">>) /\ ~Contains(col, <<"Swell">>)
            /\ ~Contains(col, <<"Wind">>) THEN <<"Hm0">>
    ELSE IF Contains(col, <<"Peak", "Direction">>) /\ ~Contains(col, <<"Swell">>)
         THEN <<"Dir_Pic">>
    ELSE IF Contains(col, <<"Peak", "Period">>) /\ ~Contains(col, <<"Swell">>)
         THEN <<"Tp">>
    ELSE col

\* df.rename(columns=renaming_map)
RenameColumns(d) ==
    DataFrame([j \in 1..Len(d.columns) |-> RenameOf(d.columns[j])], d.rows)

\* the positions of the columns named col
ColumnsNamed(d, col) == {j \in 1..Len(d.columns) : d.columns[j] = col}

HasColumn(d, col) == ColumnsNamed(d, col) # {}

\* the columns the numeric conversion loop names
numeric_cols == { <<"Hm0">>, <<"Tp">>, <<"Dir_Pic">> }

\* pd.to_datetime(x, errors='coerce') of one cell: a number is a count of
\* nanoseconds since 1970 (two half days before the first date text would be
\* 2023-12-31; every such value is written -2, a time before all date texts),
\* a text is parsed, and what does not parse is NaT.
\* (A numeric text inside a text column does not occur in the input families.)
ToDatetime(v) ==
    IF v.t = "num" THEN Ts(-2)
    ELSE IF v.t = "str" /\ IsDateText(v.s) THEN Ts(DateValue(v.s))
    ELSE NaT

\* a faulty variant: errors='ignore', which leaves a text that is no number as it is
ToNumericIgnore(v) ==
    IF v.t = "str" /\ IsNumText(v.s) THEN Num(NumValue(v.s[1])) ELSE v

\* pd.to_numeric(x, errors='coerce') of one cell
ToNumeric(v) ==
    IF v.t = "num" THEN v
    ELSE IF v.t = "str" /\ IsNumText(v.s) THEN Num(NumValue(v.s[1]))
    ELSE NaN

\* df['Date'] raises KeyError without a Date column; with several, df[col] is a
\* DataFrame, which pd.to_datetime and pd.to_numeric both refuse
CoerceRaises(d) ==
    \/ Cardinality(ColumnsNamed(d, <<"Date">>)) # 1
    \/ \E col \in numeric_cols : Cardinality(ColumnsNamed(d, col)) > 1

DateColumn(d) == CHOOSE j \in 1..Len(d.columns) : d.columns[j] = <<"Date">>

\* df['Date'] = pd.to_datetime(df['Date'], errors='coerce')
ConvertDate(d) ==
    DataFrame(d.columns,
              [r \in 1..Len(d.rows) |->
                  [j \in 1..Len(d.columns) |->
                      IF j = DateColumn(d) THEN ToDatetime(d.rows[r][j])
                      ELSE d.rows[r][j]]])

\* a faulty variant: the dropna is missing
DropNaDateMissing(d) == d

\* df.dropna(subset=['Date'])
DropNaDate(d) ==
    DataFrame(d.columns, SelectSeq(d.rows, LAMBDA row : row[DateColumn(d)].t # "nat"))

\* for col in ['Hm0', 'Tp', 'Dir_Pic']: df[col] = pd.to_numeric(df[col], ...)
ConvertNumeric(d) ==
    DataFrame(d.columns,
              [r \in 1..Len(d.rows) |->
                  [j \in 1..Len(d.columns) |->
                      IF d.columns[j] \in numeric_cols THEN ToNumeric(d.rows[r][j])
                      ELSE d.rows[r][j]]])

\* lines 70-80
Coerce(d) == ConvertNumeric(DropNaDate(ConvertDate(d)))

----------------------------------------------------------------------------
(* The script around load_data.                                            *)

DateOf(d, r) == d.rows[r][DateColumn(d)].v

\* st.date_input shows a date: the day of a time, time in half days
DayOf(v) == v \div 2

\* pd.to_datetime(a date): that day at 00:00
Midnight(day) == 2 * day

\* mask = (df_raw['Date'] >= start) & (df_raw['Date'] <= end); df_raw.loc[mask]
FilterDates(d, start_date, end_date) ==
    DataFrame(d.columns,
              SelectSeq(d.rows, LAMBDA row :
                  /\ row[DateColumn(d)].v >= Midnight(start_date)
                  /\ row[DateColumn(d)].v <= Midnight(end_date)))

\* if df is not None and not df.empty
ShowsDashboard(d) == ~IsNone(d) /\ ~Empty(d)

\* the KPI block reads df['Hm0'], df['Tp'], df['Dir_Pic'] before any chart
DashboardOutcome(d) ==
    IF ~ShowsDashboard(d) THEN "none"
    ELSE IF \A col \in numeric_cols : HasColumn(d, col) THEN "charts"
    ELSE "KeyError"

----------------------------------------------------------------------------
(* Inputs.                                                                 *)

cDateTime == <<"Date", "and", "time">>
cHm0 == <<"Hm0", "[9]">>
cSwellHm0 == <<"Swell", "Hm0">>
cPeakDir == <<"Peak", "Direction">>
cWindPeakDir == <<"Wind", "Peak", "Direction">>
cSwellPeakDir == <<"Swell", "Peak", "Direction">>
cPeakPeriod == <<"Peak", "Period", " ">>
cTemp == <<"Temperature">>

ColumnNames == {cDateTime, cHm0, cSwellHm0, cPeakDir, cWindPeakDir,
                cSwellPeakDir, cPeakPeriod, cTemp}

\* lines an export writes before its header line: a title, an empty line, a
\* line that mentions Hm0, a line with a byte that is no UTF-8
pTitle == << <<"Nortek", "AWAC">> >>
pBlank == << <<>> >>
pHm0 == << <<"Hm0", "settings">> >>
pBad == << <<"Unit", BadByte>> >>

PreambleLines == {pTitle, pBlank, pHm0, pBad}

SeqsUpTo(S, n) == UNION {[1..k -> S] : k \in 0..n}

Preambles == SeqsUpTo(PreambleLines, MaxPreamble)

DateCells == {<<DateTexts[i]>> : i \in 1..(MaxTime + 1)}
cUnits == <<"units">>
cNum == <<"15">>
cEmpty == <<>>

\* header family: every header of three column names, after every preamble,
\* over one well-formed row; and the files with no header line after the preamble
HeaderFiles ==
    {pre \o <<hdr>> \o << <<<<DateTexts[1]>>, cNum, cNum>> >> :
        pre \in Preambles, hdr \in ColumnNames \X ColumnNames \X ColumnNames}
    \cup {pre \o << <<<<DateTexts[1]>>, cNum, cNum>> >> : pre \in Preambles}

\* row family: a timestamp column and one measurement column, over every
\* sequence of rows
RowFiles ==
    {<<hdr>> \o rows :
        hdr \in {<<cDateTime, cHm0>>, <<cDateTime, cTemp>>},
        rows \in SeqsUpTo((DateCells \cup {cUnits, cEmpty}) \X {cNum, cUnits, cEmpty},
                          MaxRows)}

Files == HeaderFiles \cup RowFiles

\* the files of the script runs
fHeader == <<cDateTime, cHm0, cPeakDir, cPeakPeriod>>
fGood == <<pTitle, fHeader,
           << <<DateTexts[3]>>, cNum, cNum, cNum >>,
           << <<DateTexts[1]>>, cNum, cUnits, cNum >> >>
fUnitsOnly == <<fHeader, <<cUnits, cUnits, cUnits, cUnits>> >>
fNoHeader == <<pTitle, << <<DateTexts[1]>>, cNum >> >>
fNoTp == <<pBad, <<cDateTime, cHm0, cPeakDir>>, << <<DateTexts[2]>>, cNum, cNum >> >>
fWind == << <<cDateTime, cHm0, cPeakDir, cWindPeakDir>>,
            << <<DateTexts[1]>>, cNum, cNum, cNum >> >>

Uploads == {fGood, fUnitsOnly, fNoHeader, fNoTp, fWind}

Days == (-1)..DayOf(MaxTime)

----------------------------------------------------------------------------
(* Actions.                                                                *)

file == uploaded_file[1]

load_locals == <<lines, header_row_index, found_header, table, ret>>
script_vars == <<uploaded_file, df_raw, df, rendered>>

\* uploaded_file = st.file_uploader(...)
FileUploader ==
    /\ pc = "upload"
    /\ \E f \in {NoFile} \cup {Some(u) : u \in Uploads} :
          /\ uploaded_file' = f
          /\ pc' = IF f = NoFile THEN "dashboard" ELSE "call"
    /\ UNCHANGED <<cache, load_locals, df_raw, df, rendered>>

\* df_raw = load_data(uploaded_file), through @st.cache_data: a stored outcome
\* is returned at once, the body runs only for a file not seen before
CallLoadData ==
    /\ pc = "call"
    /\ IF file \in DOMAIN cache
       THEN /\ df_raw' = cache[file]
            /\ pc' = "sidebar"
       ELSE /\ pc' = "decode"
            /\ UNCHANGED df_raw
    /\ UNCHANGED <<uploaded_file, cache, load_locals, df, rendered>>

DoDecode ==
    /\ pc = "decode"
    /\ lines' = Decode(file)
    /\ pc' = "locate"
    /\ UNCHANGED <<cache, header_row_index, found_header, table, ret, script_vars>>

DoLocateHeader ==
    /\ pc = "locate"
    /\ IF FirstHeader(lines) = 0
       THEN /\ header_row_index' = 0
            /\ found_header' = FALSE
            /\ ret' = None
            /\ pc' = "return"
       ELSE /\ header_row_index' = FirstHeader(lines) - 1
            /\ found_header' = TRUE
            /\ pc' = "read_csv"
            /\ UNCHANGED ret
    /\ UNCHANGED <<cache, lines, table, script_vars>>

DoReadCsv ==
    /\ pc = "read_csv"
    /\ IF ReadCsvRaises(lines, header_row_index)
       THEN /\ ret' = None
            /\ pc' = "return"
            /\ UNCHANGED table
       ELSE /\ table' = ReadCsv(lines, header_row_index)
            /\ pc' = "rename"
            /\ UNCHANGED ret
    /\ UNCHANGED <<cache, lines, header_row_index, found_header, script_vars>>

DoRename ==
    /\ pc = "rename"
    /\ table' = RenameColumns(StripColumns(table))
    /\ pc' = "coerce"
    /\ UNCHANGED <<cache, lines, header_row_index, found_header, ret, script_vars>>

\* a faulty variant: the date conversion is guarded by  if 'Date' in df.columns
DoCoerceGuarded ==
    /\ pc = "coerce"
    /\ IF ~HasColumn(table, <<"Date">>)
       THEN /\ ret' = table
            /\ UNCHANGED table
       ELSE IF CoerceRaises(table)
       THEN /\ ret' = None
            /\ UNCHANGED table
       ELSE /\ table' = Coerce(table)
            /\ ret' = Coerce(table)
    /\ pc' = "return"
    /\ UNCHANGED <<cache, lines, header_row_index, found_header, script_vars>>

\* a faulty variant: an empty result is returned as a failure
DoCoerceRejectsEmpty ==
    /\ pc = "coerce"
    /\ IF CoerceRaises(table)
       THEN /\ ret' = None
            /\ UNCHANGED table
       ELSE /\ table' = Coerce(table)
            /\ ret' = IF Empty(Coerce(table)) THEN None ELSE Coerce(table)
    /\ pc' = "return"
    /\ UNCHANGED <<cache, lines, header_row_index, found_header, script_vars>>

DoCoerce ==
    /\ pc = "coerce"
    /\ IF CoerceRaises(table)
       THEN /\ ret' = None
            /\ UNCHANGED table
       ELSE /\ table' = Coerce(table)
            /\ ret' = Coerce(table)
    /\ pc' = "return"
    /\ UNCHANGED <<cache, lines, header_row_index, found_header, script_vars>>

\* a faulty variant: a failure leaves load_data as an exception, which is not stored
DoReturnRaises ==
    /\ pc = "return"
    /\ cache' = IF IsNone(ret) THEN cache ELSE (file :> ret) @@ cache
    /\ df_raw' = ret
    /\ pc' = "sidebar"
    /\ UNCHANGED <<uploaded_file, load_locals, df, rendered>>

\* load_data returns: st.cache_data stores the value under the file
DoReturn ==
    /\ pc = "return"
    /\ cache' = (file :> ret) @@ cache
    /\ df_raw' = ret
    /\ pc' = "sidebar"
    /\ UNCHANGED <<uploaded_file, load_locals, df, rendered>>

Sidebar ==
    /\ pc = "sidebar"
    /\ IF ~IsNone(df_raw) /\ ~Empty(df_raw)
       THEN \E start_date \in Days, end_date \in Days :
               df' = FilterDates(df_raw, start_date, end_date)
       ELSE UNCHANGED df
    /\ pc' = "dashboard"
    /\ UNCHANGED <<uploaded_file, cache, load_locals, df_raw, rendered>>

Dashboard ==
    /\ pc = "dashboard"
    /\ rendered' = DashboardOutcome(df)
    /\ pc' = "end"
    /\ UNCHANGED <<uploaded_file, cache, load_locals, df_raw, df>>

\* a faulty variant: df = None at the top of the script is missing
RerunKeepsDf ==
    /\ pc = "end"
    /\ df_raw' = None
    /\ rendered' = "none"
    /\ lines' = <<>>
    /\ header_row_index' = 0
    /\ found_header' = FALSE
    /\ table' = None
    /\ ret' = None
    /\ pc' = "upload"
    /\ UNCHANGED <<uploaded_file, cache, df>>

\* a rerun of the script: the module body starts again from line 1
Rerun ==
    /\ pc = "end"
    /\ df' = None
    /\ df_raw' = None
    /\ rendered' = "none"
    /\ lines' = <<>>
    /\ header_row_index' = 0
    /\ found_header' = FALSE
    /\ table' = None
    /\ ret' = None
    /\ pc' = "upload"
    /\ UNCHANGED <<uploaded_file, cache>>

Fresh ==
    /\ cache = <<>>
    /\ lines = <<>>
    /\ header_row_index = 0
    /\ found_header = FALSE
    /\ table = None
    /\ ret = None
    /\ df_raw = None
    /\ df = None
    /\ rendered = "none"

\* the first run of the script, before the file uploader
Init ==
    /\ Fresh
    /\ uploaded_file = NoFile
    /\ pc = "upload"

LoadData == DoDecode \/ DoLocateHeader \/ DoReadCsv \/ DoRename \/ DoCoerce \/ DoReturn

Next == FileUploader \/ CallLoadData \/ LoadData \/ Sidebar \/ Dashboard \/ Rerun

Spec == Init /\ [][Next]_vars

\* the entry of load_data, for any file of the input families
InitLoad ==
    /\ Fresh
    /\ uploaded_file \in {Some(f) : f \in Files}
    /\ pc = "decode"

\* one run of the script on any file of the input families, nothing cached
ScriptRun == LoadData \/ Sidebar \/ Dashboard

SpecLoad == InitLoad /\ [][ScriptRun]_vars

----------------------------------------------------------------------------
(* Properties.  The data rows of a file are stated on the uploaded file    *)
(* itself: the lines after its header line, the first line with a cell     *)
(* that holds the word Date.                                               *)

Returned == pc = "return" /\ ~IsNone(ret)

HasDateName(line) == \E j \in 1..Len(line) : Contains(line[j], <<"Date">>)

FileHeaderAt(f) == CHOOSE i \in 1..Len(f) :
    HasDateName(f[i]) /\ \A k \in 1..(i - 1) : ~HasDateName(f[k])

FileDateCell(f) == CHOOSE j \in 1..Len(f[FileHeaderAt(f)]) :
    Contains(f[FileHeaderAt(f)][j], <<"Date">>)

FileDataRows(f) == SubSeq(f, FileHeaderAt(f) + 1, Len(f))

\* a timestamp cell parses: a date text, or a number (a count since 1970)
TimestampParses(c) == IsDateText(c) \/ IsNumText(c)

TimestampOf(c) == IF IsDateText(c) THEN DateValue(c) ELSE -2

FileKeptRows(f) ==
    SelectSeq(FileDataRows(f), LAMBDA row : TimestampParses(row[FileDateCell(f)]))

\* C1: the rows load_data returns are in non-decreasing timestamp order.
C1_RowsSortedByDate ==
    Returned =>
        \A r \in 1..(Len(ret.rows) - 1) : DateOf(ret, r) <= DateOf(ret, r + 1)

\* C2: the returned dataset holds exactly the data rows whose timestamp cell
\* parses, in file order, each with its parsed timestamp: a row whose
\* timestamp cell does not parse is dropped, every other row is kept, and no
\* returned row has a missing timestamp.
C2_ExactlyParseableRows ==
    Returned =>
        /\ \E i \in 1..Len(file) : HasDateName(file[i])
        /\ Len(ret.rows) = Len(FileKeptRows(file))
        /\ \A r \in 1..Len(ret.rows) :
              /\ ret.rows[r][FileDateCell(file)].t = "ts"
              /\ ret.rows[r][FileDateCell(file)].v
                    = TimestampOf(FileKeptRows(file)[r][FileDateCell(file)])

C2_Witness ==
    /\ Returned
    /\ Len(ret.rows) >= 1
    /\ Len(ret.rows) < Len(FileDataRows(file))
    /\ \E r \in 1..Len(FileDataRows(file)) :
          FileDataRows(file)[r][FileDateCell(file)] = cUnits

\* C3: when the parsed table has no column mapped to the timestamp field,
\* load_data returns None, never a dataset.
C3_NoDateColumnFails ==
    (pc = "return" /\ ~IsNone(table)
        /\ ~\E j \in 1..Len(table.columns) : Contains(table.columns[j], <<"Date">>))
    => IsNone(ret)

C3_Witness ==
    /\ pc = "return"
    /\ found_header
    /\ ~IsNone(table)
    /\ Len(table.rows) >= 1
    /\ HasColumn(table, <<"Hm0">>)
    /\ ~HasColumn(table, <<"Date">>)
    /\ IsNone(ret)

\* C4 as stated: load_data never returns an empty dataset as a success.
C4_EmptyIsFailure == Returned => ~Empty(ret)

\* C4 amended: when the table was read and converted and no data row has a
\* timestamp that parses, load_data returns an empty dataset (not None); the
\* sidebar treats the empty dataset as unusable: df stays None and no chart
\* is rendered.
C4_EmptyIsReturned ==
    /\ (pc = "return" /\ ~IsNone(table) /\ ~CoerceRaises(table)
            /\ FileKeptRows(file) = <<>>)
        => (~IsNone(ret) /\ Empty(ret) /\ ret.columns = table.columns)
    /\ (pc \in {"dashboard", "end"} /\ ~IsNone(df_raw) /\ Empty(df_raw))
        => (IsNone(df) /\ rendered = "none")

C4_Witness ==
    /\ pc = "end"
    /\ ~IsNone(df_raw)
    /\ Empty(df_raw)
    /\ Len(FileDataRows(file)) >= 1
    /\ IsNone(df)

DateTimeMarker(line) == LineContains(line, <<"Date", "and", "time">>)

AnyMarker(line) == DateTimeMarker(line) \/ LineContains(line, <<"Hm0">>)

Searched == pc \notin {"upload", "call", "decode", "locate"} /\ lines # <<>>

\* C5 as stated: the header index is that of the first line holding the
\* date token combined with the time token, and a file with no such line
\* fails to load.
C5_FirstDateTimeLine ==
    /\ (Searched /\ found_header) =>
          /\ DateTimeMarker(lines[header_row_index + 1])
          /\ \A k \in 1..header_row_index : ~DateTimeMarker(lines[k])
    /\ (pc = "return" /\ \A k \in 1..Len(lines) : ~DateTimeMarker(lines[k]))
          => IsNone(ret)

\* C5 amended: the header index is that of the first line, among all the
\* lines of the file (there is no scan window), that contains "Date and time"
\* or "Hm0"; when no line of the file contains either, the search fails and
\* load_data returns None.
C5_FirstMarkerLine ==
    /\ (Searched /\ found_header) =>
          /\ header_row_index + 1 \in 1..Len(lines)
          /\ AnyMarker(lines[header_row_index + 1])
          /\ \A k \in 1..header_row_index : ~AnyMarker(lines[k])
    /\ (Searched /\ \E k \in 1..Len(lines) : AnyMarker(lines[k])) => found_header
    /\ (pc = "return" /\ \A k \in 1..Len(lines) : ~AnyMarker(lines[k]))
          => (~found_header /\ IsNone(ret))

C5_Witness ==
    /\ Searched
    /\ found_header
    /\ header_row_index = Len(lines) - 2
    /\ header_row_index >= 2
    /\ ~DateTimeMarker(lines[header_row_index + 1])

FileHasBadByte(f) ==
    \E i \in 1..Len(f) : \E j \in 1..Len(f[i]) : \E k \in 1..Len(f[i][j]) :
        f[i][j][k] = BadByte

\* C6 as stated: a file that no candidate encoding decodes without error
\* (it holds a byte that is no valid UTF-8) does not load.
C6_UndecodableFails == (pc = "return" /\ FileHasBadByte(file)) => IsNone(ret)

\* C6 amended: decoding uses the one encoding UTF-8 with errors='replace':
\* it never fails and applies no marker test; the decoded text is the file's
\* text with each invalid byte replaced by U+FFFD, line for line. A file in
\* which no line holds a marker fails later, in the header search.
C6_DecodeReplaces ==
    /\ pc \notin {"upload", "call", "decode"} =>
          /\ Len(lines) = Len(file)
          /\ \A i \in 1..Len(file) :
                /\ Len(lines[i]) = Len(file[i])
                /\ \A j \in 1..Len(file[i]) :
                      /\ Len(lines[i][j]) = Len(file[i][j])
                      /\ \A k \in 1..Len(file[i][j]) :
                            lines[i][j][k] = IF file[i][j][k] = BadByte
                                             THEN Replacement
                                             ELSE file[i][j][k]
    /\ (pc = "return" /\ \A i \in 1..Len(file) : ~AnyMarker(file[i]))
          => IsNone(ret)

C6_Witness ==
    /\ Returned
    /\ FileHasBadByte(file)
    /\ Len(ret.rows) >= 1

\* the header cells of the table, as read_csv names them, stripped
RawColumns == [j \in 1..Len(HeaderLineOf(lines, header_row_index)) |->
                  Strip(MangledName(HeaderLineOf(lines, header_row_index), j))]

\* C7: in a table with a generic "Peak Direction" column and a Swell- or
\* Wind-qualified one, only the generic column becomes Dir_Pic; the qualified
\* column keeps its own name.
C7_QualifiedKeepsName ==
    (pc = "coerce" /\ \E g \in 1..Len(RawColumns) : RawColumns[g] = cPeakDir) =>
        \A j \in 1..Len(RawColumns) :
            /\ RawColumns[j] = cPeakDir => table.columns[j] = <<"Dir_Pic">>
            /\ RawColumns[j] \in {cWindPeakDir, cSwellPeakDir}
                  => table.columns[j] = RawColumns[j]

NumericOrMissing(v) == v.t \in {"num", "nan"}

\* C10 as stated: every column other than the timestamp column holds a
\* number or the missing marker in each cell.
C10_AllColumnsNumeric ==
    Returned =>
        \A r \in 1..Len(ret.rows) : \A j \in 1..Len(ret.columns) :
            ret.columns[j] # <<"Date">> => NumericOrMissing(ret.rows[r][j])

\* C10 amended: the columns Hm0, Tp and Dir_Pic, when present, hold a number
\* or the missing marker in each cell: a non-numeric or empty cell becomes
\* missing and the row stays. Any other column is left as read_csv typed it.
C10_NamedColumnsNumeric ==
    Returned =>
        /\ Len(ret.rows) = Len(FileKeptRows(file))
        /\ \A r \in 1..Len(ret.rows) : \A j \in 1..Len(ret.columns) :
              ret.columns[j] \in {<<"Hm0">>, <<"Tp">>, <<"Dir_Pic">>}
                  => NumericOrMissing(ret.rows[r][j])

C10_Witness ==
    /\ Returned
    /\ \E r \in 1..Len(ret.rows) : \E j \in 1..Len(ret.columns) :
          /\ ret.columns[j] = <<"Hm0">>
          /\ ret.rows[r][j] = NaN
          /\ FileKeptRows(file)[r][j] = cUnits

C9_DashboardOnlyWithData ==
    /\ rendered = "charts" =>
          (uploaded_file # NoFile /\ ~IsNone(df_raw) /\ ~Empty(df_raw))
    /\ (pc \in {"dashboard", "end"}
            /\ (uploaded_file = NoFile \/ IsNone(df_raw) \/ Empty(df_raw)))
          => (IsNone(df) /\ rendered = "none")

\* a failed load in a run that follows a run with charts
C9_Witness ==
    /\ pc = "end"
    /\ uploaded_file # NoFile
    /\ IsNone(df_raw)
    /\ fGood \in DOMAIN cache
    /\ rendered = "none"

====
